---- MODULE Spec2Model ----
(***************************************************************************)
(* Model of the notebook interaction_between_two_atoms/                    *)
(* lennard-jones-equation.ipynb: the unit conversion of epsilon, the six   *)
(* evaluations of the Lennard-Jones potential, the linear scan of          *)
(* compare_values and the rounding step of the last cell.                  *)
(*                                                                         *)
(* Python floats are binary floating-point numbers.  They are modelled as  *)
(* binary floating-point numbers with a Prec-bit significand (Python: 53), *)
(* an unbounded exponent and round-to-nearest, ties-to-even, so that every *)
(* arithmetic operation of the code rounds its result as the code's does.  *)
(* A float is a record [m, e] of value m * 2^e, m = 0 (and e = 0) or       *)
(* 2^(Prec-1) <= |m| < 2^Prec.  The representation is canonical: two       *)
(* floats are equal as numbers iff the records are equal.  Python's -0.0   *)
(* compares equal to 0 and is the same record, Zero.  Infinities and NaN   *)
(* are not modelled: all quantities are finite.                            *)
(***************************************************************************)
EXTENDS Integers, Sequences, FiniteSets, TLC

\* Width of the significand of the modelled floats, in bits.
Prec == 11

\* Largest length of the list handed to compare_values on its own.
MaxLen == 3

RECURSIVE BitLen(_)
\* Number of bits of the natural number n (0 for n = 0).
BitLen(n) == IF n = 0 THEN 0 ELSE 1 + BitLen(n \div 2)

Abs(x) == IF x < 0 THEN -x ELSE x

Sgn(x) == IF x < 0 THEN -1 ELSE IF x > 0 THEN 1 ELSE 0

Zero == [m |-> 0, e |-> 0]

\* The float nearest to s * n * 2^e (n >= 0, s the sign), ties to even.
Round(s, n, e) ==
    IF n = 0 \/ s = 0 THEN Zero
    ELSE LET len == BitLen(n) IN
         IF len <= Prec
         THEN [m |-> s * n * 2^(Prec - len), e |-> e - (Prec - len)]
         ELSE LET sh   == len - Prec
                  q    == n \div 2^sh
                  rem  == n % 2^sh
                  half == 2^(sh - 1)
                  up   == rem > half \/ (rem = half /\ q % 2 = 1)
                  r    == IF up THEN q + 1 ELSE q
              IN IF r = 2^Prec
                 THEN [m |-> s * 2^(Prec - 1), e |-> e + sh + 1]
                 ELSE [m |-> s * r, e |-> e + sh]

RECURSIVE LongDiv(_, _, _, _, _)
\* Binary long division: the quotient q * 2^e so far and the remainder
\* rem < den; stops with Prec + 2 quotient bits and a sticky bit.
LongDiv(s, q, rem, den, e) ==
    IF q >= 2^(Prec + 1)
    THEN Round(s, 2 * q + (IF rem = 0 THEN 0 ELSE 1), e - 1)
    ELSE IF 2 * rem >= den
         THEN LongDiv(s, 2 * q + 1, 2 * rem - den, den, e - 1)
         ELSE LongDiv(s, 2 * q, 2 * rem, den, e - 1)

\* The float nearest to (num / den) * 2^e, for integers num and den > 0:
\* how a decimal literal such as 3.40 (34/10) becomes a float.
Ratio(num, den, e) ==
    IF num = 0 THEN Zero
    ELSE LongDiv(Sgn(num), Abs(num) \div den, Abs(num) % den, den, e)

\* An int operand of a float operation is converted to the nearest float.
FromInt(n) == Round(Sgn(n), Abs(n), 0)

FNeg(a) == [m |-> -a.m, e |-> a.e]

\* a * b, rounded.
FMul(a, b) == Round(Sgn(a.m) * Sgn(b.m), Abs(a.m) * Abs(b.m), a.e + b.e)

\* a / b, rounded (b # 0).
FDiv(a, b) ==
    IF a.m = 0 THEN Zero
    ELSE Ratio(Sgn(a.m) * Sgn(b.m) * Abs(a.m), Abs(b.m), a.e - b.e)

\* a + b, rounded.  When the exponents are too far apart for an exact
\* integer sum, the smaller operand is below a quarter of the last place of
\* the larger one and only decides the direction of rounding (sticky).
FAdd(a, b) ==
    IF a.m = 0 THEN b
    ELSE IF b.m = 0 THEN a
    ELSE LET hi == IF a.e >= b.e THEN a ELSE b
             lo == IF a.e >= b.e THEN b ELSE a
             d  == hi.e - lo.e
         IN IF d <= 30 - Prec
            THEN LET n == hi.m * 2^d + lo.m
                 IN Round(Sgn(n), Abs(n), lo.e)
            ELSE LET n == hi.m * 8 + Sgn(lo.m)
                 IN Round(Sgn(n), Abs(n), hi.e - 3)

\* a - b, rounded.
FSub(a, b) == FAdd(a, FNeg(b))

\* a < b on the numbers the records stand for.
FLess(a, b) ==
    IF Sgn(a.m) # Sgn(b.m) THEN Sgn(a.m) < Sgn(b.m)
    ELSE IF a.m = 0 THEN FALSE
    ELSE IF a.m > 0
         THEN a.e < b.e \/ (a.e = b.e /\ a.m < b.m)
         ELSE a.e > b.e \/ (a.e = b.e /\ a.m < b.m)

RECURSIVE pow(_, _)
\* pow(x, n) for a float x and an int n >= 1, by squaring and multiplying,
\* every product rounded.
pow(x, n) ==
    IF n = 1 THEN x
    ELSE IF n % 2 = 0
         THEN LET h == pow(x, n \div 2) IN FMul(h, h)
         ELSE FMul(pow(x, n - 1), x)

\* pow(10, -19): a float, 1 / 10^19.
pow_10_m19 == FDiv(FromInt(1), pow(FromInt(10), 19))

\* pow(10, 21): the int 10^21, converted to a float where it is multiplied.
pow_10_21 == pow(FromInt(10), 21)

\* The literal 1.602176634.
eV == Ratio(1602176634, 1000000000, 0)


\* round(x, 2): x rounded to two decimal places, ties to even, and the
\* result converted back to the nearest float.
PyRound2(x) ==
    IF x.e >= 0 THEN x
    ELSE IF -x.e >= 30 THEN Zero
    ELSE LET num == Abs(x.m) * 100
             den == 2^(-x.e)
             q   == num \div den
             rem == num % den
             up  == 2 * rem > den \/ (2 * rem = den /\ q % 2 = 1)
             c   == IF up THEN q + 1 ELSE q
         IN Ratio(Sgn(x.m) * c, 100, 0)

(***************************************************************************)
(* The functions of the notebook.                                          *)
(***************************************************************************)

\* def convert_to_j(value): return value * 1.602176634 * pow(10, -19)
convert_to_j(value) ==
    FMul(FMul(value, eV), pow_10_m19)

\* As lennard_jones, with the two powers added.
lennard_jones_add(epsilon_, sigma_, distance_) ==
    FMul(FMul(FromInt(4), epsilon_),
         FAdd(pow(FDiv(sigma_, distance_), 12), pow(FDiv(sigma_, distance_), 6)))

\* As lennard_jones, with the exponents 12 and 6 exchanged.
lennard_jones_swap(epsilon_, sigma_, distance_) ==
    FMul(FMul(FromInt(4), epsilon_),
         FSub(pow(FDiv(sigma_, distance_), 6), pow(FDiv(sigma_, distance_), 12)))

\* As lennard_jones, with the attractive term taken of sigma alone.
lennard_jones_abs(epsilon_, sigma_, distance_) ==
    FMul(FMul(FromInt(4), epsilon_),
         FSub(pow(FDiv(sigma_, distance_), 12), pow(sigma_, 6)))

\* def lennard_jones(epsilon, sigma, distance):
\*     return (4 * epsilon) * (pow((sigma / distance), 12) - pow((sigma / distance), 6))
lennard_jones(epsilon_, sigma_, distance_) ==
    FMul(FMul(FromInt(4), epsilon_),
         FSub(pow(FDiv(sigma_, distance_), 12), pow(FDiv(sigma_, distance_), 6)))

RECURSIVE scan(_, _, _, _)
\* The loop of compare_values from position n_ on (positions are 0-based,
\* as in the code; the sequence is 1-based).
scan(values_, n_, sol_, i_) ==
    IF n_ = Len(values_) THEN <<sol_, i_>>
    ELSE IF FLess(values_[n_ + 1], sol_)
         THEN scan(values_, n_ + 1, values_[n_ + 1], n_)
         ELSE scan(values_, n_ + 1, sol_, i_)

\* def compare_values(values): the pair (sol, i) it returns.
compare_values(values_) == scan(values_, 0, Zero, 0)

(***************************************************************************)
(* The inputs.                                                             *)
(***************************************************************************)

\* Cell 1: epsilon = 0.0103, sigma = 3.40, distance1 .. distance6.
EpsilonRef == Ratio(103, 10000, 0)

SigmaRef == Ratio(34, 10, 0)

Distances ==
    << Ratio(30, 10, 0), Ratio(34, 10, 0), Ratio(38, 10, 0),
       Ratio(42, 10, 0), Ratio(46, 10, 0), Ratio(50, 10, 0) >>

\* Values of epsilon (in eV) and sigma a run of the notebook starts from.
EpsIn == {EpsilonRef, Ratio(-103, 10000, 0), Ratio(2, 100, 0)}

SigmaIn == {SigmaRef, Ratio(30, 10, 0), Ratio(42, 10, 0)}

\* Arguments lennard_jones is applied to on its own.
EpsArg == {Ratio(103, 10000, 0), Ratio(-15, 10, 0), Zero, FromInt(1)}

SigmaArg == {Ratio(34, 10, 0), Ratio(-34, 10, 0), Ratio(25, 10, 0), Ratio(1, 10, 0)}

DistArg == {Ratio(30, 10, 0), Ratio(38, 10, 0), Ratio(42, 10, 0), Ratio(50, 10, 0)}

ScaleArg == {FromInt(2), FromInt(4), Ratio(1, 2, 0), FromInt(3), FromInt(7),
             FromInt(10), Ratio(15, 10, 0)}

\* Elements of the lists compare_values is applied to on its own.
ValArg == {FromInt(-2), FromInt(-1), Zero, FromInt(1), FromInt(2)}

RECURSIVE SeqsUpTo(_, _)
\* The sequences over S of length at most len.
SeqsUpTo(S, len) ==
    IF len = 0 THEN {<<>>}
    ELSE LET shorter == SeqsUpTo(S, len - 1)
         IN shorter \cup {Append(q, x) : q \in {t \in shorter : Len(t) = len - 1}, x \in S}

(***************************************************************************)
(* The state: the notebook's variables, the locals of compare_values and   *)
(* the position of the run.                                                *)
(***************************************************************************)
VARIABLES
    pc,        \* the cell (or the place in compare_values) to execute next
    epsilon,   \* cell 1, rebound by cell 3
    sigma,     \* cell 1
    distance,  \* cell 1: distance1 .. distance6, as a sequence
    v,         \* cell 5: v1 .. v6, a function on those bound so far
    lowest,    \* cell 7, rebound by cell 8
    index,     \* cell 7
    bound,     \* which of "lowest", "index" are bound
    values,    \* compare_values: its argument
    sol,       \* compare_values: local
    i,         \* compare_values: local
    n,         \* compare_values: the next position of range(len(values))
    k,         \* the scale factor, when lennard_jones is applied on its own
    out        \* what cell 8 printed, as <<number>>, <<>> before

vars == <<pc, epsilon, sigma, distance, v, lowest, index, bound,
          values, sol, i, n, k, out>>

NoV == [x \in {} |-> Zero]

\* The state after cell 1 (the definitions of cells 2, 4 and 6 bind no data).
Init ==
    /\ pc = "cell3"
    /\ epsilon \in EpsIn
    /\ sigma \in SigmaIn
    /\ distance = Distances
    /\ v = NoV
    /\ lowest = Zero /\ index = 0 /\ bound = {}
    /\ values = <<>> /\ sol = Zero /\ i = 0 /\ n = 0
    /\ k = FromInt(1)
    /\ out = <<>>


(***************************************************************************)
(* The run of the notebook, cell by cell.                                  *)
(***************************************************************************)

\* Cell 3: epsilon = convert_to_j(epsilon)
CellConvert ==
    /\ pc = "cell3"
    /\ epsilon' = convert_to_j(epsilon)
    /\ pc' = "cell5"
    /\ UNCHANGED <<sigma, distance, v, lowest, index, bound,
                   values, sol, i, n, k, out>>

\* As Evaluate, with the result stored in the next free one of v1 .. v6.
Evaluate_append(j) ==
    /\ pc = "cell5"
    /\ j \in (1..6) \ DOMAIN v
    /\ v' = ((Cardinality(DOMAIN v) + 1) :> lennard_jones(epsilon, sigma, distance[j])) @@ v
    /\ pc' = IF DOMAIN v' = 1..6 THEN "cell7" ELSE "cell5"
    /\ UNCHANGED <<epsilon, sigma, distance, lowest, index, bound,
                   values, sol, i, n, k, out>>

\* As Evaluate, with the unit conversion applied inside the evaluation.
Evaluate_convert(j) ==
    /\ pc = "cell5"
    /\ j \in (1..6) \ DOMAIN v
    /\ epsilon' = convert_to_j(epsilon)
    /\ v' = (j :> lennard_jones(epsilon', sigma, distance[j])) @@ v
    /\ pc' = IF DOMAIN v' = 1..6 THEN "cell7" ELSE "cell5"
    /\ UNCHANGED <<sigma, distance, lowest, index, bound,
                   values, sol, i, n, k, out>>

\* Cell 5, one line: vj = lennard_jones(epsilon, sigma, distancej)
Evaluate(j) ==
    /\ pc = "cell5"
    /\ j \in (1..6) \ DOMAIN v
    /\ v' = (j :> lennard_jones(epsilon, sigma, distance[j])) @@ v
    /\ pc' = IF DOMAIN v' = 1..6 THEN "cell7" ELSE "cell5"
    /\ UNCHANGED <<epsilon, sigma, distance, lowest, index, bound,
                   values, sol, i, n, k, out>>

\* Cell 5 as the notebook runs it: v1, v2, ..., v6 in this order.
CellEvaluate == Evaluate(Cardinality(DOMAIN v) + 1)

\* Cell 5 with its six lines run in any order.
CellEvaluateAnyOrder == \E j \in 1..6 : Evaluate(j)

\* Cell 7, the call: compare_values([v1, v2, v3, v4, v5, v6])
CellCall ==
    /\ pc = "cell7"
    /\ values' = [j \in 1..6 |-> v[j]]
    /\ pc' = "start"
    /\ UNCHANGED <<epsilon, sigma, distance, v, lowest, index, bound,
                   sol, i, n, k, out>>

\* As CmpStart, with the candidate taken from the first element.
CmpStart_first ==
    /\ pc = "start"
    /\ sol' = IF Len(values) > 0 THEN values[1] ELSE Zero
    /\ i' = 0
    /\ n' = 0
    /\ pc' = "scan"
    /\ UNCHANGED <<epsilon, sigma, distance, v, lowest, index, bound,
                   values, k, out>>

\* compare_values: sol = 0; i = 0, and the loop is entered.
CmpStart ==
    /\ pc = "start"
    /\ sol' = Zero
    /\ i' = 0
    /\ n' = 0
    /\ pc' = "scan"
    /\ UNCHANGED <<epsilon, sigma, distance, v, lowest, index, bound,
                   values, k, out>>

\* As CmpIter, with the candidate replaced by an element not greater than it.
CmpIter_leq ==
    /\ pc = "scan"
    /\ n < Len(values)
    /\ IF ~FLess(sol, values[n + 1])
       THEN sol' = values[n + 1] /\ i' = n
       ELSE UNCHANGED <<sol, i>>
    /\ n' = n + 1
    /\ UNCHANGED <<pc, epsilon, sigma, distance, v, lowest, index, bound,
                   values, k, out>>

\* compare_values, one iteration of: for n in range(len(values)):
\*     if values[n] < sol: sol = values[n]; i = n
CmpIter ==
    /\ pc = "scan"
    /\ n < Len(values)
    /\ IF FLess(values[n + 1], sol)
       THEN sol' = values[n + 1] /\ i' = n
       ELSE UNCHANGED <<sol, i>>
    /\ n' = n + 1
    /\ UNCHANGED <<pc, epsilon, sigma, distance, v, lowest, index, bound,
                   values, k, out>>

\* As CmpReturn, with the loop left one element early.
CmpReturn_early ==
    /\ pc = "scan"
    /\ n >= Len(values) - 1
    /\ lowest' = sol
    /\ index' = i
    /\ bound' = {"lowest", "index"}
    /\ pc' = "cell8"
    /\ UNCHANGED <<epsilon, sigma, distance, v, values, sol, i, n, k, out>>

\* compare_values: return sol, i, and cell 7 binds
\* lowest, index = compare_values(...)
CmpReturn ==
    /\ pc = "scan"
    /\ n = Len(values)
    /\ lowest' = sol
    /\ index' = i
    /\ bound' = {"lowest", "index"}
    /\ pc' = "cell8"
    /\ UNCHANGED <<epsilon, sigma, distance, v, values, sol, i, n, k, out>>

\* As CellRound, with the stored potentials rounded in place as well.
CellRound_all ==
    /\ pc = "cell8"
    /\ lowest' = PyRound2(FMul(lowest, pow_10_21))
    /\ v' = [j \in DOMAIN v |-> PyRound2(FMul(v[j], pow_10_21))]
    /\ out' = <<lowest'>>
    /\ pc' = "done"
    /\ UNCHANGED <<epsilon, sigma, distance, index, bound,
                   values, sol, i, n, k>>

\* Cell 8: lowest = round(lowest * pow(10, 21), 2); print(f"{lowest}e-21 J")
CellRound ==
    /\ pc = "cell8"
    /\ lowest' = PyRound2(FMul(lowest, pow_10_21))
    /\ out' = <<lowest'>>
    /\ pc' = "done"
    /\ UNCHANGED <<epsilon, sigma, distance, v, index, bound,
                   values, sol, i, n, k>>

Next ==
    \/ CellConvert
    \/ CellEvaluate
    \/ CellCall
    \/ CmpStart
    \/ CmpIter
    \/ CmpReturn
    \/ CellRound

\* The notebook run from top to bottom.
Spec == Init /\ [][Next]_vars

NextAnyOrder ==
    \/ CellConvert
    \/ CellEvaluateAnyOrder
    \/ CellCall
    \/ CmpStart
    \/ CmpIter
    \/ CmpReturn
    \/ CellRound

\* The notebook with the six evaluations of cell 5 in any order.
SpecAnyOrder == Init /\ [][NextAnyOrder]_vars

(***************************************************************************)
(* compare_values applied on its own to every list over ValArg of length   *)
(* at most MaxLen.                                                         *)
(***************************************************************************)
InitCmp ==
    /\ pc = "start"
    /\ values \in SeqsUpTo(ValArg, MaxLen)
    /\ epsilon = Zero /\ sigma = Zero /\ distance = <<>>
    /\ v = NoV
    /\ lowest = Zero /\ index = 0 /\ bound = {}
    /\ sol = Zero /\ i = 0 /\ n = 0
    /\ k = FromInt(1)
    /\ out = <<>>

NextCmp == CmpStart \/ CmpIter \/ CmpReturn

SpecCmp == InitCmp /\ [][NextCmp]_vars

\* A call that has started runs on: the interpreter does not stop in it.
SpecCmpFair == SpecCmp /\ WF_vars(NextCmp)

(***************************************************************************)
(* lennard_jones applied on its own: to (epsilon, sigma, r) and to         *)
(* (epsilon, k * sigma, k * r), r being sigma or an element of DistArg.    *)
(***************************************************************************)
InitLJ ==
    /\ pc = "base"
    /\ epsilon \in EpsArg
    /\ sigma \in SigmaArg
    /\ distance \in {<<r>> : r \in DistArg \cup {sigma}}
    /\ k \in ScaleArg
    /\ v = NoV
    /\ lowest = Zero /\ index = 0 /\ bound = {}
    /\ values = <<>> /\ sol = Zero /\ i = 0 /\ n = 0
    /\ out = <<>>

\* v[1] = lennard_jones(epsilon, sigma, r)
ApplyBase ==
    /\ pc = "base"
    /\ v' = (1 :> lennard_jones(epsilon, sigma, distance[1])) @@ v
    /\ pc' = "scaled"
    /\ UNCHANGED <<epsilon, sigma, distance, lowest, index, bound,
                   values, sol, i, n, k, out>>

\* v[2] = lennard_jones(epsilon, k * sigma, k * r)
ApplyScaled ==
    /\ pc = "scaled"
    /\ v' = (2 :> lennard_jones(epsilon, FMul(k, sigma), FMul(k, distance[1]))) @@ v
    /\ pc' = "applied"
    /\ UNCHANGED <<epsilon, sigma, distance, lowest, index, bound,
                   values, sol, i, n, k, out>>

NextLJ == ApplyBase \/ ApplyScaled

SpecLJ == InitLJ /\ [][NextLJ]_vars


(***************************************************************************)
(* Properties.                                                             *)
(***************************************************************************)

\* compare_values has returned (cell 7 has bound lowest and index, cell 8
\* has not run yet).
Returned == pc = "cell8"

\* No element of seq is smaller than x.
IsLowerBound(x, seq) == \A j \in 1..Len(seq) : ~FLess(seq[j], x)

\* C1: for every sequence handed to compare_values, the pair it returns is
\* the smallest value of the sequence and the zero-based position of the
\* first occurrence of that value.
C1_SmallestAndFirst ==
    (Returned /\ Len(values) > 0) =>
        /\ index + 1 \in 1..Len(values)
        /\ values[index + 1] = lowest
        /\ IsLowerBound(lowest, values)
        /\ \A j \in 1..index : values[j] # lowest

\* C2: when no element of the sequence is negative, compare_values returns
\* (0, 0), also when 0 is not an element of the sequence.
C2_NonNegativeGivesZero ==
    (Returned /\ IsLowerBound(Zero, values)) => (lowest = Zero /\ index = 0)

\* C2 happens: a non-empty list of strictly positive values was scanned.
C2_Witness ==
    /\ Returned
    /\ Len(values) = MaxLen
    /\ \A j \in 1..Len(values) : FLess(Zero, values[j])
    /\ lowest = Zero /\ index = 0

\* The run started from the values of cell 1.
ReferenceRun ==
    /\ epsilon = convert_to_j(EpsilonRef)
    /\ sigma = SigmaRef
    /\ distance = Distances

\* C3: in the run from epsilon = 0.0103 eV, sigma = 3.40 and the six
\* distances of cell 1, compare_values returns index 2 and V(3.8), which is
\* negative and strictly smaller than the five other potentials.
C3_ReferenceMinimum ==
    (Returned /\ ReferenceRun) =>
        /\ index = 2
        /\ lowest = v[3]
        /\ v[3] = lennard_jones(convert_to_j(EpsilonRef), SigmaRef, Ratio(38, 10, 0))
        /\ FLess(v[3], Zero)
        /\ \A j \in (1..6) \ {3} : FLess(v[3], v[j])

\* C3 happens: the reference run has got its minimum.
C3_Witness ==
    /\ Returned /\ ReferenceRun
    /\ DOMAIN v = 1..6
    /\ values = [j \in 1..6 |-> v[j]]
    /\ lowest # Zero

AppliedToPositive ==
    pc = "applied" /\ FLess(Zero, sigma) /\ FLess(Zero, distance[1])

\* C5 as stated: lennard_jones(epsilon, sigma, r) equals
\* lennard_jones(epsilon, k * sigma, k * r) for every epsilon, every
\* sigma, r > 0 and every positive scalar k.
C5_ScaleInvariant ==
    (AppliedToPositive /\ FLess(Zero, k)) => v[1] = v[2]

\* k is a power of two (2^j, j an integer).
IsPowerOfTwo(x) == x.m = 2^(Prec - 1)

\* C5 as amended: lennard_jones(epsilon, sigma, r) equals
\* lennard_jones(epsilon, k * sigma, k * r) for every epsilon, every
\* sigma, r > 0 and every k that is a power of two, the products k * sigma
\* and k * r then being exact.
C5_ScaleInvariantPow2 ==
    (AppliedToPositive /\ IsPowerOfTwo(k)) => v[1] = v[2]

\* C5 happens: both evaluations were made, with a power of two other than 1
\* and a potential other than 0.
C5_Witness ==
    /\ AppliedToPositive
    /\ distance[1] # sigma
    /\ IsPowerOfTwo(k) /\ k # FromInt(1)
    /\ v[1] = v[2] /\ v[1] # Zero

\* C6: with the six evaluations of cell 5 run in any order (each after the
\* conversion of epsilon), v1 .. v6 and the pair compare_values returns are
\* those of the run in the order of the notebook.
C6_OrderIndependent ==
    /\ \A j \in DOMAIN v : v[j] = lennard_jones(epsilon, sigma, distance[j])
    /\ Returned =>
          <<lowest, index>> =
              compare_values([j \in 1..6 |-> lennard_jones(epsilon, sigma, distance[j])])

\* C6 happens: in the reference run v2 .. v6 were evaluated before v1.
C6_Witness ==
    /\ ReferenceRun
    /\ pc = "cell5"
    /\ DOMAIN v = 2..6
    /\ v[3] = lennard_jones(epsilon, sigma, distance[3])

\* C7 as stated: cell 8 leaves every computed value unchanged, lowest and
\* index among them, and epsilon is the only variable whose value changes
\* after its first assignment.
C7_RoundChangesNothing ==
    [][ /\ pc = "cell8" =>
              UNCHANGED <<epsilon, sigma, distance, v, lowest, index>>
        /\ "lowest" \in bound => lowest' = lowest
        /\ "index" \in bound => index' = index
        /\ \A j \in DOMAIN v : j \in DOMAIN v' /\ v'[j] = v[j]
        /\ UNCHANGED <<sigma, distance>>
      ]_vars

\* C7 as amended: cell 8 leaves epsilon, sigma, the distances, v1 .. v6 and
\* index unchanged and rebinds lowest to round(lowest * 10^21, 2); of the
\* notebook's variables only epsilon (at its conversion) and lowest (in
\* cell 8) change after their first assignment.
C7_RoundChangesLowestOnly ==
    [][ /\ pc = "cell8" =>
              /\ UNCHANGED <<epsilon, sigma, distance, v, index>>
              /\ lowest' = PyRound2(FMul(lowest, pow_10_21))
        /\ ("lowest" \in bound /\ lowest' # lowest) => pc = "cell8"
        /\ "index" \in bound => index' = index
        /\ \A j \in DOMAIN v : j \in DOMAIN v' /\ v'[j] = v[j]
        /\ UNCHANGED <<sigma, distance>>
        /\ epsilon' # epsilon => pc = "cell3"
      ]_vars

\* C7 happens: cell 8 has run and has changed lowest.
C7_Witness ==
    /\ pc = "done"
    /\ out = <<lowest>>
    /\ FLess(sol, Zero)
    /\ lowest # sol
    /\ v[index + 1] = sol

\* x is one of the values epsilon starts from, converted to J.
Converted(x) == \E eps \in EpsIn : x = convert_to_j(eps)

\* C8: epsilon is converted from eV to J once, before any of v1 .. v6 is
\* evaluated; it never changes afterwards, and each of the six evaluations
\* reads the converted value.
C8_ConvertedOnce ==
    [][ /\ epsilon' # epsilon => (pc = "cell3" /\ DOMAIN v = {})
        /\ pc' # "cell3"
        /\ \A j \in DOMAIN v' \ DOMAIN v :
              /\ pc # "cell3"
              /\ Converted(epsilon)
              /\ v'[j] = lennard_jones(epsilon, sigma, distance[j])
      ]_vars

\* C8 happens: all six potentials were evaluated with the converted epsilon.
C8_Witness ==
    /\ DOMAIN v = 1..6
    /\ epsilon = convert_to_j(EpsilonRef)
    /\ epsilon # EpsilonRef
    /\ \A j \in 1..6 : v[j] = lennard_jones(epsilon, sigma, distance[j])

\* C9: the scan starts from the candidate (0, 0); iteration n replaces it,
\* by (values[n], n), only when values[n] is strictly less than sol; so
\* sol never increases, and an element equal to sol changes neither sol
\* nor i.
C9_StrictReplacement ==
    [][ /\ pc = "start" => (sol' = Zero /\ i' = 0)
        /\ (pc = "scan" /\ n < Len(values)) =>
              /\ ~FLess(sol, sol')
              /\ IF FLess(values[n + 1], sol)
                 THEN sol' = values[n + 1] /\ i' = n
                 ELSE sol' = sol /\ i' = i
              /\ values[n + 1] = sol => (sol' = sol /\ i' = i)
      ]_vars

\* C9 happens: the scan has passed an element equal to the candidate
\* without taking its position.
C9_Witness ==
    /\ pc = "scan"
    /\ n >= 2
    /\ values[n] = sol
    /\ i < n - 1
    /\ FLess(sol, Zero)

\* The least of 0 and the elements of seq.
MinWithZero(seq) ==
    CHOOSE x \in {Zero} \cup {seq[j] : j \in 1..Len(seq)} :
        /\ ~FLess(Zero, x)
        /\ IsLowerBound(x, seq)

\* What C10 says of the state compare_values returns in.
C10_Result ==
    /\ n = Len(values)
    /\ sol = MinWithZero(values)
    /\ ~FLess(Zero, sol)
    /\ FLess(sol, Zero) =>
          /\ i \in 0..(Len(values) - 1)
          /\ values[i + 1] = sol
          /\ \A j \in 1..i : values[j] # sol
    /\ sol = Zero => i = 0
    /\ lowest = sol /\ index = i

\* C10: for every finite sequence, the empty one included, compare_values
\* returns, after len(values) iterations, with sol the least of 0 and the
\* elements; if sol < 0, i is the first position holding sol; if sol = 0,
\* i = 0.
C10_ScanResult == [](Returned => C10_Result) /\ <>Returned

\* C10 happens: a scan has returned a negative minimum found after the
\* first position; and a scan of the empty list has returned.
C10_Witness ==
    /\ Returned
    /\ Len(values) = MaxLen
    /\ FLess(sol, Zero)
    /\ i > 0
    /\ \E j \in 1..Len(values) : j > i + 1 /\ values[j] = sol

====
